---- MODULE Spec2Model ----
(***************************************************************************)
(* Model of pkg/finding/finding.go of cifuzz: persisting findings          *)
(* (Save, LoadFinding, ListFindings, Exists) and storing crashing inputs   *)
(* (MoveInputFile / moveInputFile) on a file system shared by processes.   *)
(*                                                                         *)
(* Strings are sequences of letters (a letter is a short TLA+ string), so  *)
(* that joining paths, making them relative and replacing substrings are   *)
(* computed, not assumed.  "/" is the path separator letter.               *)
(***************************************************************************)
EXTENDS Integers, Sequences, FiniteSets, TLC

\* ------------------------------------------------------------------ bounds
NumProcs == 2
MaxCalls == 3
MaxTime == 2
MaxFaults == 2

Procs == 1..NumProcs
Times == 1..MaxTime

\* --------------------------------------------------------------- constants
nameCrashingInput == <<"crashing-input">>
nameJsonFile == <<"finding.json">>
nameFindingsDir == <<".cifuzz-findings">>
lockFile == <<".lock">>

\* The project directory and the seed corpus directory the callers pass.
projectDir == <<"/", "proj">>
seedCorpusDir == <<"/", "proj", "/", "corpus">>
tmpDir == <<"/", "tmp">>

\* Finding names, in the order os.ReadDir lists them (sorted by filename).
SortedNames == << <<"crash-abc">>, <<"crash-xyz">> >>
FindingNames == {SortedNames[k] : k \in 1..Len(SortedNames)}

\* Contents of crashing inputs.
Bytes == {"AAAA", "BBBB"}

\* Working directories of the processes.
Cwds == {projectDir, <<"/", "proj", "/", "sub">>, <<"/", "home">>}

\* The empty string, and the nil error.
Empty == <<>>
Nil == "nil"

\* ----------------------------------------------------------------- strings
Digit == <<"0", "1", "2", "3", "4", "5", "6", "7", "8", "9">>

\* strconv.Itoa for n >= 0
RECURSIVE Itoa(_)
Itoa(n) ==
    IF n < 10 THEN <<Digit[n + 1]>>
    ELSE Itoa(n \div 10) \o <<Digit[(n % 10) + 1]>>

\* filepath.Join of two clean elements
Join(a, b) == a \o <<"/">> \o b

IsAbs(s) == Len(s) > 0 /\ s[1] = "/"

\* Index of the first separator of s, Len(s) + 1 when it has none.
FirstSep(s) ==
    LET seps == {k \in 1..Len(s) : s[k] = "/"}
    IN  IF seps = {} THEN Len(s) + 1 ELSE CHOOSE k \in seps : \A l \in seps : k <= l

\* The path components of a clean path, each a string.  (The path and the
\* index of its first separator are bound once, as v and k.)
RECURSIVE Components(_)
Components(s) ==
    IF Len(s) = 0 THEN <<>>
    ELSE CHOOSE cs \in
             {IF k = 1 THEN Components(Tail(v))
              ELSE <<SubSeq(v, 1, k - 1)>> \o Components(SubSeq(v, k + 1, Len(v))) :
                  v \in {s}, k \in {FirstSep(s)}} : TRUE

RECURSIVE JoinComps(_)
JoinComps(cs) ==
    IF Len(cs) = 0 THEN <<".">>
    ELSE IF Len(cs) = 1 THEN cs[1]
    ELSE cs[1] \o <<"/">> \o JoinComps(Tail(cs))

\* Length of the longest common prefix of two component lists.
CommonLen(a, b) ==
    LET m == IF Len(a) < Len(b) THEN Len(a) ELSE Len(b)
        same == {k \in 0..m : \A j \in 1..k : a[j] = b[j]}
    IN  CHOOSE k \in same : \A l \in same : l <= k

\* filepath.Rel(base, targ) fails when only one of the two is absolute.
RelFails(base, targ) == IsAbs(base) # IsAbs(targ)

\* filepath.Rel(base, targ): ".." for every component of base below the
\* common prefix, then the rest of targ.  (The component lists are bound
\* once, as b and t.)
Rel(base, targ) ==
    CHOOSE r \in
        {LET k == CommonLen(b, t)
             ups == [j \in 1..(Len(b) - k) |-> <<"..">>]
         IN  JoinComps(ups \o SubSeq(t, k + 1, Len(t))) :
             b \in {Components(base)}, t \in {Components(targ)}} : TRUE

\* strings.ReplaceAll(s, old, new) for a non-empty old: the non-overlapping
\* occurrences of old, leftmost first.
RECURSIVE ReplaceAll(_, _, _)
ReplaceAll(s, old, new) ==
    IF Len(old) = 0 \/ Len(s) < Len(old) THEN s
    ELSE IF SubSeq(s, 1, Len(old)) = old
         THEN new \o ReplaceAll(SubSeq(s, Len(old) + 1, Len(s)), old, new)
         ELSE <<s[1]>> \o ReplaceAll(Tail(s), old, new)

\* strings.Contains
Contains(s, sub) ==
    \E k \in 1..(Len(s) - Len(sub) + 1) : SubSeq(s, k, k + Len(sub) - 1) = sub

\* -------------------------------------------------------------- file paths
FindingDir(name) == Join(Join(projectDir, nameFindingsDir), name)
JsonPath(name) == Join(FindingDir(name), nameJsonFile)
LockPath(name) == Join(FindingDir(name), lockFile)
SlotPath(name, k) == Join(FindingDir(name), nameCrashingInput \o <<"-">> \o Itoa(k))

\* Mutant of SeedPath: the slot's number is not used in the name.
SeedPathNoIndex(name, k) == Join(seedCorpusDir, name \o <<"-">> \o Itoa(1))

SeedPath(name, k) == Join(seedCorpusDir, name \o <<"-">> \o Itoa(k))

\* The crashing input the fuzzer wrote for process p: /tmp/in<p>
InputPath(p) == Join(tmpDir, <<"in">> \o Itoa(p))

\* A directory and all its ancestors below the root (what os.MkdirAll makes).
DirsOf(d) ==
    {SubSeq(d, 1, k) : k \in {j \in 2..Len(d) : j = Len(d) \/ d[j + 1] = "/"}}


\* ------------------------------------------------------------------- state
VARIABLES
    files,    \* the regular files that hold bytes: path -> content
    json,     \* the finding.json files: path -> encoded record
    dirs,     \* the directories that exist
    locked,   \* the lock files on which some open file holds the flock
    cwd,      \* the working directory of the processes
    f,        \* f[p]: the Finding object process p holds in memory
    pc,       \* pc[p]: where process p stands in its current call
    i,        \* i[p]: the slot index of moveInputFile's loop
    err,      \* err[p]: the error moveInputFile returned to MoveInputFile
    ret,      \* ret[p]: what p's last call returned
    calls,    \* the number of calls begun so far
    pre,      \* the file system and the Finding when the latest call began
    inb,      \* inb[p]: the bytes of p's input file when its call began
    savedOk,  \* the names for which a Save has returned nil
    moved,    \* <<name, bytes>> of the MoveInputFile calls that returned nil
    faults    \* the number of system calls that have failed so far

vars == <<files, json, dirs, locked, cwd, f, pc, i, err, ret, calls, pre, inb,
          savedOk, moved, faults>>

NoBytes == "none"
NoRet == [op |-> "none", err |-> Nil, inner |-> "notrun", unlock |-> "notrun",
          logged |-> Nil]

\* fileutil.Exists: whether anything exists at the path
FileExists(path) == path \in DOMAIN files \/ path \in DOMAIN json \/ path \in dirs

\* The file a path names for a process: relative paths start at cwd.
Resolve(path) == IF IsAbs(path) THEN path ELSE Join(cwd, path)

\* os.ReadFile succeeds on a regular file.
Readable(path) == Resolve(path) \in DOMAIN files
ReadFile(path) == files[Resolve(path)]

\* sliceutil.Equal on two byte slices
Equal(a, b) == a = b

\* os.MkdirAll
MkdirAll(d) == dirs \cup DirsOf(d)

\* copy.Copy(src, dest) of a regular file: dest holds src's bytes afterwards.
Copy(src, dest) == (dest :> ReadFile(src)) @@ files

\* os.Remove of a regular file
Remove(path) == [x \in DOMAIN files \ {Resolve(path)} |-> files[x]]

\* The log lines the fuzzer printed for an input file: without the path, with
\* it once, with it twice, with a longer path that starts with it, and with
\* another file's path.
LogsOf(path) ==
    << <<"INFO:", " ", "seed", " ", "corpus">>,
       <<"artifact", " ">> \o path,
       path \o <<" ", "reproduces", " ">> \o path,
       <<"wrote", " ">> \o path \o <<"7">>,
       <<"see", " ">> \o Join(tmpDir, <<"other">>) >>

\* json.MarshalIndent of a Finding: seedPath is unexported and not encoded.
MarshalIndent(x) ==
    [name |-> x.Name, logs |-> x.Logs, InputFile |-> x.InputFile,
     created_at |-> x.CreatedAt]

\* json.Unmarshal into a new Finding
Unmarshal(b) ==
    [Name |-> b.name, Logs |-> b.logs, InputFile |-> b.InputFile,
     CreatedAt |-> b.created_at, seedPath |-> Empty]

\* The Finding the fault detection hands to process p, for the crashing
\* input it wrote to InputPath(p).
NewFinding(p, name, t) ==
    [Name |-> name, InputFile |-> InputPath(p), Logs |-> LogsOf(InputPath(p)),
     CreatedAt |-> t, seedPath |-> Empty]

\* The state before any call: every process holds a Finding and its input
\* file exists; the findings directory does not exist yet.
InitWith(cwds, names, bytes, times) ==
    /\ cwd \in cwds
    /\ \E b \in [Procs -> bytes] : files = [x \in {InputPath(p) : p \in Procs} |->
            b[CHOOSE p \in Procs : InputPath(p) = x]]
    /\ json = <<>>
    /\ dirs = DirsOf(projectDir) \cup DirsOf(tmpDir) \cup DirsOf(cwd)
    /\ locked = {}
    /\ \E n \in [Procs -> names], t \in [Procs -> times] :
            f = [p \in Procs |-> NewFinding(p, n[p], t[p])]
    /\ pc = [p \in Procs |-> "idle"]
    /\ i = [p \in Procs |-> 0]
    /\ err = [p \in Procs |-> Nil]
    /\ ret = [p \in Procs |-> NoRet]
    /\ calls = 0
    /\ pre = [p |-> 0, files |-> <<>>, json |-> <<>>, f |-> <<>>, savedOk |-> {}]
    /\ inb = [p \in Procs |-> NoBytes]
    /\ savedOk = {}
    /\ moved = {}
    /\ faults = 0

Init == InitWith(Cwds, FindingNames, Bytes, {1})

AllIdle == \A q \in Procs : pc[q] = "idle"

\* The state a call of process p begins in, kept for the claims.
Begin(p) ==
    /\ pc[p] = "idle"
    /\ calls < MaxCalls
    /\ calls' = calls + 1
    /\ pre' = [p |-> p, files |-> files, json |-> json, f |-> f[p],
               savedOk |-> savedOk]
    /\ inb' = [inb EXCEPT ![p] =
                 IF Readable(f[p].InputFile) THEN ReadFile(f[p].InputFile)
                 ELSE NoBytes]

\* A call returns e; for the claims, the errors of moveInputFile and of
\* mutex.Unlock ("notrun" when they were not run) and what log.Error got.
Return(p, op, e, inner, unlock, logged) ==
    /\ pc' = [pc EXCEPT ![p] = "idle"]
    /\ ret' = [ret EXCEPT ![p] =
                 [op |-> op, err |-> e, inner |-> inner, unlock |-> unlock,
                  logged |-> logged]]

\* Finding.GetSeedPath of a Finding that is not nil
GetSeedPath(x) == x.seedPath

\* ------------------------------------------------------------ Finding.Save
\* Mutant of Exists: the finding's directory is looked up, not its JSON file.
ExistsDir(x) == FileExists(FindingDir(x.Name))

\* Finding.Exists: whether the JSON file of the finding x exists
Exists(x) == FileExists(JsonPath(x.Name))

\* Mutant of IsDuplicate: the check is missing.
IsDuplicateNever(name) == FALSE

\* Save's check for a finding of the same name
IsDuplicate(name) == FileExists(JsonPath(name))

\* os.MkdirAll(findingDir)
SaveMkdir(p) ==
    /\ Begin(p)
    /\ dirs' = MkdirAll(FindingDir(f[p].Name))
    /\ pc' = [pc EXCEPT ![p] = "save_exists"]
    /\ UNCHANGED <<faults, files, json, locked, cwd, f, i, err, ret, savedOk, moved>>

\* fileutil.Exists(jsonPath): a finding of that name is a duplicate
SaveExists(p) ==
    /\ pc[p] = "save_exists"
    /\ IF IsDuplicate(f[p].Name)
       THEN Return(p, "Save", "AlreadyExists", "notrun", "notrun", Nil)
       ELSE pc' = [pc EXCEPT ![p] = "save_write"] /\ UNCHANGED ret
    /\ UNCHANGED <<faults, files, json, dirs, locked, cwd, f, i, err, calls, pre, inb,
                   savedOk, moved>>

\* saveJson: os.WriteFile(jsonPath, json.MarshalIndent(f))
saveJson(p) ==
    /\ pc[p] = "save_write"
    /\ json' = (JsonPath(f[p].Name) :> MarshalIndent(f[p])) @@ json
    /\ Return(p, "Save", Nil, "notrun", "notrun", Nil)
    /\ savedOk' = savedOk \cup {f[p].Name}
    /\ UNCHANGED <<faults, files, dirs, locked, cwd, f, i, err, calls, pre, inb, moved>>


\* --------------------------------------------------- Finding.MoveInputFile
\* Mutant of MoveResult: an unlock error is returned whenever there is one.
MoveResultUnlockFirst(innerErr, unlockErr) ==
    IF unlockErr # Nil THEN unlockErr ELSE innerErr

\* What MoveInputFile returns once moveInputFile and mutex.Unlock are done:
\* the unlock error only when moveInputFile succeeded.
MoveResult(innerErr, unlockErr) ==
    IF innerErr = Nil THEN unlockErr ELSE innerErr

\* What MoveInputFile hands to log.Error: the unlock error it does not return.
MoveLogged(innerErr, unlockErr) ==
    IF innerErr # Nil /\ unlockErr # Nil THEN unlockErr ELSE Nil

\* os.MkdirAll(findingDir)
MoveMkdir(p) ==
    /\ Begin(p)
    /\ dirs' = MkdirAll(FindingDir(f[p].Name))
    /\ pc' = [pc EXCEPT ![p] = "mv_new"]
    /\ UNCHANGED <<faults, files, json, locked, cwd, f, i, err, ret, savedOk, moved>>

\* filemutex.New(lockFile) opens the lock file, creating it when missing.
MoveNewMutex(p) ==
    /\ pc[p] = "mv_new"
    /\ files' = IF LockPath(f[p].Name) \in DOMAIN files THEN files
                ELSE (LockPath(f[p].Name) :> "") @@ files
    /\ pc' = [pc EXCEPT ![p] = "mv_lock"]
    /\ UNCHANGED <<faults, json, dirs, locked, cwd, f, i, err, ret, calls, pre, inb,
                   savedOk, moved>>

\* Mutant of Locked: the lock is never seen as held.
LockedNever(path) == FALSE

\* Whether some open file holds the flock on the lock file
Locked(path) == path \in locked

\* mutex.Lock() blocks until no other open file holds the lock.
MoveLock(p) ==
    /\ pc[p] = "mv_lock"
    /\ ~Locked(LockPath(f[p].Name))
    /\ locked' = locked \cup {LockPath(f[p].Name)}
    /\ i' = [i EXCEPT ![p] = 1]
    /\ pc' = [pc EXCEPT ![p] = "mv_scan"]
    /\ UNCHANGED <<faults, files, json, dirs, cwd, f, err, ret, calls, pre, inb,
                   savedOk, moved>>

\* moveInputFile leaves its loop or returns: the error, and where p goes.
InnerReturn(p, e) ==
    /\ err' = [err EXCEPT ![p] = e]
    /\ pc' = [pc EXCEPT ![p] = "mv_unlock"]

\* Mutants of SameContent: the comparison always fails, or always succeeds.
SameContentNever(path, inputFile) == FALSE
SameContentAlways(path, inputFile) == TRUE

\* Whether the existing slot file and the new file are identical
SameContent(path, inputFile) == Equal(ReadFile(path), ReadFile(inputFile))

\* Mutant of MoveScan: when a slot holds the new file's bytes, the logs and
\* InputFile are rewritten to that slot before the call returns.
MoveScanDupRewrites(p) ==
    LET path == SlotPath(f[p].Name, i[p]) IN
    /\ pc[p] = "mv_scan"
    /\ IF ~FileExists(path)
       THEN pc' = [pc EXCEPT ![p] = "mv_copy"] /\ UNCHANGED <<i, err>>
       ELSE IF ~Readable(path)
       THEN InnerReturn(p, "read_existing") /\ UNCHANGED i
       ELSE IF ~Readable(f[p].InputFile)
       THEN InnerReturn(p, "read_new") /\ UNCHANGED i
       ELSE IF SameContent(path, f[p].InputFile)
       THEN pc' = [pc EXCEPT ![p] = "mv_rewrite"] /\ UNCHANGED <<i, err>>
       ELSE i' = [i EXCEPT ![p] = @ + 1] /\ UNCHANGED <<pc, err>>
    /\ UNCHANGED <<faults, files, json, dirs, locked, cwd, f, ret, calls, pre, inb,
                   savedOk, moved>>

\* One turn of the loop that chooses the slot: a free path ends it, a slot
\* with the new file's bytes ends the call, any other slot is skipped.
MoveScan(p) ==
    LET path == SlotPath(f[p].Name, i[p]) IN
    /\ pc[p] = "mv_scan"
    /\ IF ~FileExists(path)
       THEN pc' = [pc EXCEPT ![p] = "mv_copy"] /\ UNCHANGED <<i, err>>
       ELSE IF ~Readable(path)
       THEN InnerReturn(p, "read_existing") /\ UNCHANGED i
       ELSE IF ~Readable(f[p].InputFile)
       THEN InnerReturn(p, "read_new") /\ UNCHANGED i
       ELSE IF SameContent(path, f[p].InputFile)
       THEN InnerReturn(p, Nil) /\ UNCHANGED i
       ELSE i' = [i EXCEPT ![p] = @ + 1] /\ UNCHANGED <<pc, err>>
    /\ UNCHANGED <<faults, files, json, dirs, locked, cwd, f, ret, calls, pre, inb,
                   savedOk, moved>>

\* Mutant of MoveCopySlot: the file is moved to the slot as os.Rename would,
\* so the source is gone before the corpus copy.
MoveCopySlotRename(p) ==
    LET path == SlotPath(f[p].Name, i[p]) IN
    /\ pc[p] = "mv_copy"
    /\ IF Readable(f[p].InputFile)
       THEN /\ files' = [x \in (DOMAIN files \cup {path}) \ {Resolve(f[p].InputFile)} |->
                            IF x = path THEN ReadFile(f[p].InputFile) ELSE files[x]]
            /\ pc' = [pc EXCEPT ![p] = "mv_seed"]
            /\ UNCHANGED err
       ELSE InnerReturn(p, "copy_slot") /\ UNCHANGED files
    /\ UNCHANGED <<faults, json, dirs, locked, cwd, f, i, ret, calls, pre, inb,
                   savedOk, moved>>

\* copy.Copy(f.InputFile, path)
MoveCopySlot(p) ==
    LET path == SlotPath(f[p].Name, i[p]) IN
    /\ pc[p] = "mv_copy"
    /\ IF Readable(f[p].InputFile)
       THEN /\ files' = Copy(f[p].InputFile, path)
            /\ pc' = [pc EXCEPT ![p] = "mv_seed"]
            /\ UNCHANGED err
       ELSE InnerReturn(p, "copy_slot") /\ UNCHANGED files
    /\ UNCHANGED <<faults, json, dirs, locked, cwd, f, i, ret, calls, pre, inb,
                   savedOk, moved>>

\* os.MkdirAll(seedCorpusDir); f.seedPath = ...; copy.Copy(f.InputFile, f.seedPath)
MoveCopySeed(p) ==
    LET seed == SeedPath(f[p].Name, i[p]) IN
    /\ pc[p] = "mv_seed"
    /\ dirs' = MkdirAll(seedCorpusDir)
    /\ f' = [f EXCEPT ![p].seedPath = seed]
    /\ IF Readable(f[p].InputFile)
       THEN /\ files' = Copy(f[p].InputFile, seed)
            /\ pc' = [pc EXCEPT ![p] = "mv_remove"]
            /\ UNCHANGED err
       ELSE InnerReturn(p, "copy_seed") /\ UNCHANGED files
    /\ UNCHANGED <<faults, json, locked, cwd, i, ret, calls, pre, inb, savedOk, moved>>

\* os.Remove(f.InputFile)
MoveRemove(p) ==
    /\ pc[p] = "mv_remove"
    /\ IF Readable(f[p].InputFile)
       THEN /\ files' = Remove(f[p].InputFile)
            /\ pc' = [pc EXCEPT ![p] = "mv_rewrite"]
            /\ UNCHANGED err
       ELSE InnerReturn(p, "remove") /\ UNCHANGED files
    /\ UNCHANGED <<faults, json, dirs, locked, cwd, f, i, ret, calls, pre, inb,
                   savedOk, moved>>

\* Mutants of Rewritten: InputFile is made relative to the working directory,
\* or the logs get the path relative to the project directory.
RewrittenRelCwd(x, path) ==
    [x EXCEPT !.Logs = [k \in 1..Len(x.Logs) |->
                          ReplaceAll(x.Logs[k], x.InputFile, Rel(cwd, path))],
              !.InputFile = Rel(cwd, path)]
RewrittenRelProject(x, path) ==
    [x EXCEPT !.Logs = [k \in 1..Len(x.Logs) |->
                          ReplaceAll(x.Logs[k], x.InputFile, Rel(projectDir, path))],
              !.InputFile = Rel(projectDir, path)]

\* The Finding after the old file name is replaced in its logs by the slot's
\* path relative to the working directory, and InputFile is set to the
\* slot's path relative to the project directory.
Rewritten(x, path) ==
    [x EXCEPT !.Logs = [k \in 1..Len(x.Logs) |->
                          ReplaceAll(x.Logs[k], x.InputFile, Rel(cwd, path))],
              !.InputFile = Rel(projectDir, path)]

\* os.Getwd, filepath.Rel, the rewrite of the logs and of InputFile
MoveRewrite(p) ==
    LET path == SlotPath(f[p].Name, i[p]) IN
    /\ pc[p] = "mv_rewrite"
    /\ IF RelFails(cwd, path) \/ RelFails(projectDir, path)
       THEN InnerReturn(p, "rel") /\ UNCHANGED f
       ELSE f' = [f EXCEPT ![p] = Rewritten(f[p], path)] /\ InnerReturn(p, Nil)
    /\ UNCHANGED <<faults, files, json, dirs, locked, cwd, i, ret, calls, pre, inb,
                   savedOk, moved>>

\* Mutant of MoveUnlock: MoveInputFile returns the error of moveInputFile
\* at once, and unlocks only when there is none.
MoveUnlockOnSuccess(p) ==
    /\ pc[p] = "mv_unlock"
    /\ locked' = IF err[p] = Nil THEN locked \ {LockPath(f[p].Name)} ELSE locked
    /\ Return(p, "Move", MoveResult(err[p], Nil), err[p], Nil, MoveLogged(err[p], Nil))
    /\ moved' = IF MoveResult(err[p], Nil) = Nil
                THEN moved \cup {<<f[p].Name, inb[p]>>} ELSE moved
    /\ UNCHANGED <<faults, files, json, dirs, cwd, f, i, err, calls, pre, inb, savedOk>>

\* mutex.Unlock() and the choice of the error to return
MoveUnlock(p) ==
    /\ pc[p] = "mv_unlock"
    /\ locked' = locked \ {LockPath(f[p].Name)}
    /\ Return(p, "Move", MoveResult(err[p], Nil), err[p], Nil, MoveLogged(err[p], Nil))
    /\ moved' = IF MoveResult(err[p], Nil) = Nil
                THEN moved \cup {<<f[p].Name, inb[p]>>} ELSE moved
    /\ UNCHANGED <<faults, files, json, dirs, cwd, f, i, err, calls, pre, inb, savedOk>>

\* ------------------------------------------- LoadFinding and ListFindings
\* LoadFinding(projectDir, findingName): the error and the Finding
LoadFinding(findingName) ==
    IF JsonPath(findingName) \notin DOMAIN json
    THEN [err |-> IF FileExists(JsonPath(findingName)) THEN "read" ELSE "NotExist",
          f |-> <<>>]
    ELSE [err |-> Nil, f |-> Unmarshal(json[JsonPath(findingName)])]

\* os.ReadDir(findingsDir): the names of the entries, sorted by filename
ReadDir ==
    SelectSeq(SortedNames,
              LAMBDA n : FileExists(Join(Join(projectDir, nameFindingsDir), n)))

\* Mutant of After: Before is used, the oldest finding comes first.
AfterAsBefore(a, b) == a < b

\* time.Time.After
After(a, b) == a > b

\* The comparison ListFindings sorts by: newest first
Less(x, y) == After(x.CreatedAt, y.CreatedAt)

\* x put before the first element of the sorted list s it is less than
RECURSIVE Insert(_, _)
Insert(s, x) ==
    IF Len(s) = 0 THEN <<x>>
    ELSE IF Less(x, s[1]) THEN <<x>> \o s
    ELSE <<s[1]>> \o Insert(Tail(s), x)

\* sort.SliceStable: the one stable ordering of s by Less
RECURSIVE SliceStable(_)
SliceStable(s) ==
    IF Len(s) = 0 THEN <<>>
    ELSE Insert(SliceStable(SubSeq(s, 1, Len(s) - 1)), s[Len(s)])

\* Mutant of ListFindings: an entry whose record cannot be loaded is skipped.
ListFindingsSkipping ==
    IF Join(projectDir, nameFindingsDir) \notin dirs
    THEN [err |-> Nil, res |-> <<>>]
    ELSE LET entries == SelectSeq(ReadDir, LAMBDA n : LoadFinding(n).err = Nil)
         IN  [err |-> Nil,
              res |-> SliceStable([k \in 1..Len(entries) |-> LoadFinding(entries[k]).f])]

\* ListFindings(projectDir): the error and the findings
ListFindings ==
    IF Join(projectDir, nameFindingsDir) \notin dirs
    THEN [err |-> Nil, res |-> <<>>]
    ELSE LET entries == ReadDir
             loaded == [k \in 1..Len(entries) |-> LoadFinding(entries[k])]
             bad == {k \in 1..Len(entries) : loaded[k].err # Nil}
         IN  IF bad # {}
             THEN [err |-> loaded[CHOOSE k \in bad : \A l \in bad : k <= l].err,
                   res |-> <<>>]
             ELSE [err |-> Nil,
                   res |-> SliceStable([k \in 1..Len(entries) |-> loaded[k].f])]

\* ------------------------------------------------------------------- specs
\* The steps of a call that has begun.
SaveStep(p) ==
    \/ SaveExists(p)
    \/ saveJson(p)

MoveStep(p) ==
    \/ MoveNewMutex(p)
    \/ MoveLock(p)
    \/ MoveScan(p)
    \/ MoveCopySlot(p)
    \/ MoveCopySeed(p)
    \/ MoveRemove(p)
    \/ MoveRewrite(p)
    \/ MoveUnlock(p)

\* Calls one after the other: a call begins when no call is under way.
Next ==
    \E p \in Procs :
        \/ AllIdle /\ SaveMkdir(p)
        \/ AllIdle /\ MoveMkdir(p)
        \/ SaveStep(p)
        \/ MoveStep(p)

Spec == Init /\ [][Next]_vars


\* ------------------------------------------- failing system calls
\* A system call of process p fails: one more fault.
Fault == faults < MaxFaults /\ faults' = faults + 1

\* What a copy that failed may leave at dest: nothing new, or an empty file.
FailedCopy(dest) == {files, (dest :> "") @@ files}

\* What an os.MkdirAll(d) that failed may leave: it makes the ancestors first
\* and removes nothing, so any of d's ancestors may exist, d itself does not.
FailedMkdirAll(d) ==
    {dirs \cup {x \in DirsOf(d) : Len(x) <= n} : n \in 0..(Len(d) - 1)}

\* os.MkdirAll(findingDir) fails: MoveInputFile returns before the lock.
MoveMkdirFails(p) ==
    /\ Begin(p) /\ Fault
    /\ dirs' \in FailedMkdirAll(FindingDir(f[p].Name))
    /\ ret' = [ret EXCEPT ![p] =
                 [op |-> "Move", err |-> "mkdir", inner |-> "notrun",
                  unlock |-> "notrun", logged |-> Nil]]
    /\ UNCHANGED <<files, json, locked, cwd, f, pc, i, err, savedOk, moved>>

\* filemutex.New fails.
MoveNewMutexFails(p) ==
    /\ pc[p] = "mv_new" /\ Fault
    /\ Return(p, "Move", "new_mutex", "notrun", "notrun", Nil)
    /\ UNCHANGED <<files, json, dirs, locked, cwd, f, i, err, calls, pre, inb,
                   savedOk, moved>>

\* mutex.Lock() fails: moveInputFile is not run.
MoveLockFails(p) ==
    /\ pc[p] = "mv_lock" /\ Fault
    /\ Return(p, "Move", "lock", "notrun", "notrun", Nil)
    /\ UNCHANGED <<files, json, dirs, locked, cwd, f, i, err, calls, pre, inb,
                   savedOk, moved>>

\* fileutil.Exists or os.ReadFile fails in the loop.
MoveScanFails(p) ==
    /\ pc[p] = "mv_scan" /\ Fault
    /\ InnerReturn(p, "scan")
    /\ UNCHANGED <<files, json, dirs, locked, cwd, f, i, ret, calls, pre, inb,
                   savedOk, moved>>

\* copy.Copy to the slot fails.
MoveCopySlotFails(p) ==
    /\ pc[p] = "mv_copy" /\ Fault
    /\ files' \in FailedCopy(SlotPath(f[p].Name, i[p]))
    /\ InnerReturn(p, "copy_slot")
    /\ UNCHANGED <<json, dirs, locked, cwd, f, i, ret, calls, pre, inb,
                   savedOk, moved>>

\* os.MkdirAll(seedCorpusDir) fails: seedPath is not set yet.
MoveMkdirSeedFails(p) ==
    /\ pc[p] = "mv_seed" /\ Fault
    /\ dirs' \in FailedMkdirAll(seedCorpusDir)
    /\ InnerReturn(p, "mkdir_seed")
    /\ UNCHANGED <<files, json, locked, cwd, f, i, ret, calls, pre, inb,
                   savedOk, moved>>

\* copy.Copy to the seed corpus fails: seedPath is set already.
MoveCopySeedFails(p) ==
    /\ pc[p] = "mv_seed" /\ Fault
    /\ dirs' = MkdirAll(seedCorpusDir)
    /\ f' = [f EXCEPT ![p].seedPath = SeedPath(f[p].Name, i[p])]
    /\ files' \in FailedCopy(SeedPath(f[p].Name, i[p]))
    /\ InnerReturn(p, "copy_seed")
    /\ UNCHANGED <<json, locked, cwd, i, ret, calls, pre, inb, savedOk, moved>>

\* os.Remove fails: the source file stays.
MoveRemoveFails(p) ==
    /\ pc[p] = "mv_remove" /\ Fault
    /\ InnerReturn(p, "remove")
    /\ UNCHANGED <<files, json, dirs, locked, cwd, f, i, ret, calls, pre, inb,
                   savedOk, moved>>

\* os.Getwd fails: the logs and InputFile are not rewritten.
MoveGetwdFails(p) ==
    /\ pc[p] = "mv_rewrite" /\ Fault
    /\ InnerReturn(p, "getwd")
    /\ UNCHANGED <<files, json, dirs, locked, cwd, f, i, ret, calls, pre, inb,
                   savedOk, moved>>

\* mutex.Unlock() fails: the lock may stay held by the open lock file.
MoveUnlockFails(p) ==
    /\ pc[p] = "mv_unlock" /\ Fault
    /\ locked' \in {locked, locked \ {LockPath(f[p].Name)}}
    /\ Return(p, "Move", MoveResult(err[p], "unlock"), err[p], "unlock",
              MoveLogged(err[p], "unlock"))
    /\ moved' = IF MoveResult(err[p], "unlock") = Nil
                THEN moved \cup {<<f[p].Name, inb[p]>>} ELSE moved
    /\ UNCHANGED <<files, json, dirs, cwd, f, i, err, calls, pre, inb, savedOk>>

Fails(p) ==
    \/ MoveNewMutexFails(p)
    \/ MoveLockFails(p)
    \/ MoveScanFails(p)
    \/ MoveCopySlotFails(p)
    \/ MoveMkdirSeedFails(p)
    \/ MoveCopySeedFails(p)
    \/ MoveRemoveFails(p)
    \/ MoveGetwdFails(p)
    \/ MoveUnlockFails(p)

\* MoveInputFile calls one after the other, in which system calls may fail.
NextFault ==
    \E p \in Procs :
        \/ AllIdle /\ MoveMkdir(p)
        \/ AllIdle /\ MoveMkdirFails(p)
        \/ MoveStep(p)
        \/ Fails(p)

\* All processes hold findings of one name.
InitFault == InitWith({projectDir}, {SortedNames[1]}, Bytes, {1})
SpecFault == InitFault /\ [][NextFault]_vars

\* Findings that differ in CreatedAt, inputs and working directory alike.
InitList == InitWith({projectDir}, FindingNames, {"AAAA"}, Times)
SpecList == InitList /\ [][Next]_vars

\* MoveInputFile calls of different processes that overlap: any process may
\* begin and take its next step at any time.
NextPar ==
    \E p \in Procs :
        \/ MoveMkdir(p)
        \/ MoveStep(p)

InitPar == InitWith({projectDir}, FindingNames, Bytes, {1})
SpecPar == InitPar /\ [][NextPar]_vars

\* Save calls of different processes that overlap: Save takes no lock, so
\* any process may begin and take its next step at any time.
NextSave ==
    \E p \in Procs :
        \/ SaveMkdir(p)
        \/ SaveStep(p)

InitSave == InitWith({projectDir}, FindingNames, {"AAAA"}, Times)
SpecSave == InitSave /\ [][NextSave]_vars

\* A system call of moveInputFile fails.
InnerFails(p) ==
    \/ MoveScanFails(p)
    \/ MoveCopySlotFails(p)
    \/ MoveMkdirSeedFails(p)
    \/ MoveCopySeedFails(p)
    \/ MoveRemoveFails(p)
    \/ MoveGetwdFails(p)

\* Every process calls MoveInputFile once for the same finding; the calls
\* overlap, and the system calls of moveInputFile may fail.
NextLive ==
    \E p \in Procs :
        \/ ret[p].op = "none" /\ MoveMkdir(p)
        \/ MoveStep(p)
        \/ InnerFails(p)

\* Every process that has begun a call goes on with it, and a process that
\* waits for a lock which is free again and again gets it.
FairLive ==
    \A p \in Procs : WF_vars(MoveStep(p)) /\ SF_vars(MoveLock(p))

\* The inputs of all processes hold the same bytes: the first call stores
\* them, the others find them stored unless a step failed.
InitLive == InitWith({projectDir}, {SortedNames[1]}, {"AAAA"}, {1})
SpecLive == InitLive /\ [][NextLive]_vars /\ FairLive

\* A user removes a slot file of a finding directory while no call is under
\* way.
RemoveSlot(n, k) ==
    /\ AllIdle
    /\ SlotPath(n, k) \in DOMAIN files
    /\ files' = Remove(SlotPath(n, k))
    /\ UNCHANGED <<faults, json, dirs, locked, cwd, f, pc, i, err, ret, calls, pre,
                   inb, savedOk, moved>>

\* MoveInputFile calls one after the other, between which slot files may be
\* removed.
NextOob ==
    \/ \E p \in Procs :
           \/ AllIdle /\ MoveMkdir(p)
           \/ MoveStep(p)
    \/ \E n \in FindingNames, k \in 1..MaxCalls : RemoveSlot(n, k)

InitOob == InitWith({projectDir}, {SortedNames[1]}, Bytes, {1})
SpecOob == InitOob /\ [][NextOob]_vars

\* ================================================================== claims
\* The slot indices a run can reach.
SlotRange == 1..(MaxCalls + 1)

\* Process p made the latest call, and the call has returned.
Returned(p, op) == pre.p = p /\ pc[p] = "idle" /\ ret[p].op = op

\* C1: of two Save calls made one after the other for the same name, the
\* first returns nil and writes the record, the second returns AlreadyExists
\* and leaves every finding.json as it was.
C1_SaveTwice ==
    \A p \in Procs : Returned(p, "Save") =>
        IF pre.f.Name \in pre.savedOk
        THEN ret[p].err = "AlreadyExists" /\ json = pre.json
        ELSE /\ ret[p].err = Nil
             /\ json = (JsonPath(pre.f.Name) :> MarshalIndent(pre.f)) @@ pre.json

\* A second Save of a name another process saved has returned.
C1_Witness ==
    \E p \in Procs :
        /\ Returned(p, "Save")
        /\ ret[p].err = "AlreadyExists"
        /\ json[JsonPath(f[p].Name)].InputFile # InputPath(p)


\* C8: when ListFindings succeeds, its result holds every saved finding
\* exactly once, as LoadFinding decodes it, and of two findings with
\* different CreatedAt the more recent one comes first.
C8_ListOrder ==
    LET r == ListFindings IN
    r.err = Nil =>
        /\ Len(r.res) = Cardinality(savedOk)
        /\ \A n \in savedOk : \E k \in 1..Len(r.res) :
               /\ r.res[k].Name = n
               /\ r.res[k] = Unmarshal(json[JsonPath(n)])
        /\ \A k \in 1..Len(r.res) : \A l \in (k + 1)..Len(r.res) :
               r.res[k].CreatedAt # r.res[l].CreatedAt =>
                   r.res[k].CreatedAt > r.res[l].CreatedAt

\* Two findings are listed in the reverse of the directory's order.
C8_Witness ==
    LET r == ListFindings IN
    /\ r.err = Nil
    /\ Len(r.res) >= 2
    /\ r.res[1].CreatedAt > r.res[2].CreatedAt
    /\ r.res[1].Name = SortedNames[2]
    /\ r.res[2].Name = SortedNames[1]

\* C9: in every state, Exists is true of a name exactly when a Save of that
\* name has returned nil, and LoadFinding returns NotExist exactly when
\* Exists is false.
C9_ExistsLoad ==
    \A n \in FindingNames :
        /\ Exists([Name |-> n]) <=> n \in savedOk
        /\ LoadFinding(n).err = "NotExist" <=> ~Exists([Name |-> n])
        /\ LoadFinding(n).err \in {Nil, "NotExist"}

\* MoveInputFile made a finding's directory and stored a slot in it, the
\* finding was never saved, and another finding was.
C9_Witness ==
    \E n \in FindingNames, m \in FindingNames :
        /\ FileExists(SlotPath(n, 1))
        /\ ~Exists([Name |-> n])
        /\ LoadFinding(n).err = "NotExist"
        /\ Exists([Name |-> m])
        /\ LoadFinding(m).err = Nil


\* ------------------------------------------- the cases of MoveInputFile
\* Process p's MoveInputFile, the latest call, returned nil for readable input.
MoveOk(p) ==
    Returned(p, "Move") /\ ret[p].err = Nil /\ inb[p] # NoBytes

\* The slot and corpus paths, written out.
SlotRel(n, k) ==
    <<".cifuzz-findings", "/">> \o n \o <<"/", "crashing-input", "-">> \o Itoa(k)
SlotAbs(n, k) == <<"/", "proj", "/">> \o SlotRel(n, k)
SeedAbs(n, k) == <<"/", "proj", "/", "corpus", "/">> \o n \o <<"-">> \o Itoa(k)

\* Slot k of finding n holds bytes b in the file map fs.
Holds(fs, path, b) == path \in DOMAIN fs /\ fs[path] = b

\* When p's call began, a slot of its finding held the input's bytes.
HadSlot(p) ==
    \E k \in SlotRange : Holds(pre.files, SlotAbs(pre.f.Name, k), inb[p])

DedupCase(p) == MoveOk(p) /\ HadSlot(p)
StoreCase(p) == MoveOk(p) /\ ~HadSlot(p)

\* path lies in directory d
InDir(path, d) ==
    Len(path) > Len(d) /\ SubSeq(path, 1, Len(d) + 1) = d \o <<"/">>

\* The files of directory d are the same in the file maps a and b.
SameDir(a, b, d) ==
    \A path \in DOMAIN a \cup DOMAIN b :
        InDir(path, d) =>
            path \in DOMAIN a /\ path \in DOMAIN b /\ a[path] = b[path]

\* C2: a successful MoveInputFile for a finding without slots leaves
\* crashing-input-1 and <corpus>/<name>-1 with the source's bytes, no source
\* file, seedPath the corpus path and InputFile
\* .cifuzz-findings/<name>/crashing-input-1.
C2_FirstStore ==
    \A p \in Procs :
        (/\ MoveOk(p)
         /\ \A k \in SlotRange : SlotAbs(pre.f.Name, k) \notin DOMAIN pre.files)
        => /\ Holds(files, SlotAbs(pre.f.Name, 1), inb[p])
           /\ Holds(files, SeedAbs(pre.f.Name, 1), inb[p])
           /\ pre.f.InputFile \notin DOMAIN files
           /\ f[p].seedPath = SeedAbs(pre.f.Name, 1)
           /\ f[p].InputFile = SlotRel(pre.f.Name, 1)

\* Such a call has returned in a process that runs outside the project
\* directory.
C2_Witness ==
    \E p \in Procs :
        /\ MoveOk(p)
        /\ \A k \in SlotRange : SlotAbs(pre.f.Name, k) \notin DOMAIN pre.files
        /\ cwd # projectDir
        /\ f[p].seedPath # Empty

\* C3: once a MoveInputFile for finding n and bytes b has returned nil,
\* exactly one slot of n and exactly one corpus file of n hold b, however
\* often b is stored.
C3_OneSlotOneSeed ==
    \A m \in moved :
        m[2] # NoBytes =>
            /\ Cardinality({k \in SlotRange : Holds(files, SlotAbs(m[1], k), m[2])}) = 1
            /\ Cardinality({k \in SlotRange : Holds(files, SeedAbs(m[1], k), m[2])}) = 1

\* The same bytes were stored for one finding by two processes whose calls
\* overlapped: q's call began before p had stored the bytes, and found them
\* stored when it got the lock.
C3_Witness ==
    \E p \in Procs, q \in Procs :
        /\ p # q
        /\ f[p].Name = f[q].Name
        /\ inb[p] = inb[q]
        /\ inb[p] # NoBytes
        /\ pc[p] = "idle" /\ ret[p].op = "Move" /\ ret[p].err = Nil
        /\ pc[q] = "idle" /\ ret[q].op = "Move" /\ ret[q].err = Nil
        /\ pre.p = q
        /\ SlotAbs(f[q].Name, 1) \notin DOMAIN pre.files
        /\ f[p].seedPath # Empty
        /\ f[q].seedPath = Empty

\* C4 as claimed: a call that finds the bytes already stored in slot k leaves
\* the finding with the InputFile and the seedPath of the call that stored
\* them.
C4_Original ==
    \A p \in Procs : DedupCase(p) =>
        \E k \in SlotRange :
            /\ Holds(pre.files, SlotAbs(pre.f.Name, k), inb[p])
            /\ f[p].InputFile = SlotRel(pre.f.Name, k)
            /\ f[p].seedPath = SeedAbs(pre.f.Name, k)

\* C4, amended: the call that stores the bytes in a new slot k sets seedPath
\* to <corpus>/<name>-k and InputFile to the slot's path relative to the
\* project directory; a call that finds the bytes already stored leaves
\* InputFile and seedPath as they were before the call.
C4_Amended ==
    \A p \in Procs :
        /\ DedupCase(p) =>
              /\ f[p].InputFile = pre.f.InputFile
              /\ f[p].seedPath = pre.f.seedPath
        /\ StoreCase(p) =>
              \E k \in SlotRange :
                  /\ SlotAbs(pre.f.Name, k) \notin DOMAIN pre.files
                  /\ Holds(files, SlotAbs(pre.f.Name, k), inb[p])
                  /\ Holds(files, SeedAbs(pre.f.Name, k), inb[p])
                  /\ f[p].InputFile = SlotRel(pre.f.Name, k)
                  /\ f[p].seedPath = SeedAbs(pre.f.Name, k)

\* A fresh finding's call found its bytes stored by another process: its
\* seedPath is empty and its InputFile the source path, the other's are set.
C4_Witness ==
    \E p \in Procs, q \in Procs :
        /\ DedupCase(p)
        /\ pre.f.InputFile = InputPath(p)
        /\ f[p].seedPath = Empty
        /\ f[p].InputFile = InputPath(p)
        /\ f[q].Name = f[p].Name
        /\ f[q].seedPath # Empty

\* C5 as claimed: a call whose source file holds the bytes of a stored slot
\* deletes the source file, leaves the finding directory unchanged and adds
\* no corpus entry.
C5_Original ==
    \A p \in Procs : (DedupCase(p) /\ pre.f.InputFile = InputPath(p)) =>
        /\ pre.f.InputFile \notin DOMAIN files
        /\ SameDir(files, pre.files, FindingDir(pre.f.Name))
        /\ SameDir(files, pre.files, seedCorpusDir)

\* C5, amended: such a call leaves the source file in place with its bytes,
\* leaves the finding directory unchanged and adds no corpus entry.
C5_Amended ==
    \A p \in Procs : DedupCase(p) =>
        /\ Holds(files, Resolve(pre.f.InputFile), inb[p])
        /\ SameDir(files, pre.files, FindingDir(pre.f.Name))
        /\ SameDir(files, pre.files, seedCorpusDir)
        /\ files = pre.files

\* A call with a fresh source file found its bytes stored; the source file
\* is still there.
C5_Witness ==
    \E p \in Procs :
        /\ DedupCase(p)
        /\ pre.f.InputFile = InputPath(p)
        /\ InputPath(p) \in DOMAIN files
        /\ \E k \in SlotRange : Holds(files, SlotAbs(pre.f.Name, k), inb[p])

\* C6: once MoveInputFile has returned nil for two different byte sequences
\* of one finding, two different slots hold them, and the corpus files with
\* the slots' numbers hold the same bytes.
C6_TwoSlots ==
    \A m1 \in moved, m2 \in moved :
        (m1[1] = m2[1] /\ m1[2] # m2[2] /\ m1[2] # NoBytes /\ m2[2] # NoBytes) =>
            \E k1 \in SlotRange, k2 \in SlotRange :
                /\ k1 # k2
                /\ Holds(files, SlotAbs(m1[1], k1), m1[2])
                /\ Holds(files, SlotAbs(m1[1], k2), m2[2])
                /\ Holds(files, SeedAbs(m1[1], k1), m1[2])
                /\ Holds(files, SeedAbs(m1[1], k2), m2[2])

\* Two different byte sequences were stored for one finding.
C6_Witness ==
    \E m1 \in moved, m2 \in moved :
        /\ m1[1] = m2[1] /\ m1[2] # m2[2] /\ m1[2] # NoBytes /\ m2[2] # NoBytes
        /\ Holds(files, SlotAbs(m1[1], 1), m1[2])
        /\ Holds(files, SlotAbs(m1[1], 2), m2[2])

\* The slot's path relative to each working directory, written out.
CwdRel(n, k) ==
    (IF cwd = <<"/", "proj">> THEN <<>>
     ELSE IF cwd = <<"/", "proj", "/", "sub">> THEN <<"..", "/">>
     ELSE <<"..", "/", "proj", "/">>) \o SlotRel(n, k)

\* C7: after a MoveInputFile that stored a new slot, every log line that
\* held the source path holds the slot's path relative to the working
\* directory in place of each occurrence, every other line is unchanged,
\* and no line holds the source path.
C7_LogRewrite ==
    \A p \in Procs : StoreCase(p) =>
        LET old == pre.f.Logs
            new == f[p].Logs
            src == pre.f.InputFile
        IN  /\ Len(new) = Len(old)
            /\ \A j \in 1..Len(old) :
                   /\ ~Contains(old[j], src) => new[j] = old[j]
                   /\ ~Contains(new[j], src)
            /\ old = LogsOf(src) =>
                   \E k \in SlotRange :
                       /\ SlotAbs(pre.f.Name, k) \notin DOMAIN pre.files
                       /\ Holds(files, SlotAbs(pre.f.Name, k), inb[p])
                       /\ new = LogsOf(CwdRel(pre.f.Name, k))

\* A new slot was stored from outside the project directory for a finding
\* whose logs name the source file, once and twice in a line.
C7_Witness ==
    \E p \in Procs :
        /\ StoreCase(p)
        /\ cwd # projectDir
        /\ pre.f.Logs = LogsOf(pre.f.InputFile)
        /\ Contains(pre.f.Logs[3], pre.f.InputFile)
        /\ f[p].Logs # pre.f.Logs
        /\ f[p].Logs[1] = pre.f.Logs[1]


\* C10: what MoveInputFile returns.  When the lock was not acquired,
\* moveInputFile was not run, nothing was stored and the error of the
\* failed step is returned.  When it was: the error of moveInputFile if
\* there is one (an unlock error is then logged, not returned), else the
\* unlock error if there is one, else nil.
C10_ResultTable ==
    \A p \in Procs : (pc[p] = "idle" /\ ret[p].op = "Move") =>
        LET r == ret[p] IN
        IF r.inner = "notrun"
        THEN /\ r.err \in {"mkdir", "new_mutex", "lock"}
             /\ r.unlock = "notrun"
             /\ pre.p = p =>
                   /\ f[p] = pre.f
                   /\ \A path \in DOMAIN files :
                          path \in DOMAIN pre.files \/ path = LockPath(f[p].Name)
        ELSE /\ r.inner # Nil => (r.err = r.inner /\ r.logged = r.unlock)
             /\ (r.inner = Nil /\ r.unlock # Nil) =>
                   (r.err = r.unlock /\ r.logged = Nil)
             /\ (r.inner = Nil /\ r.unlock = Nil) =>
                   (r.err = Nil /\ r.logged = Nil)

\* moveInputFile failed, then mutex.Unlock failed: the first error was
\* returned and the second logged.
C10_Witness ==
    \E p \in Procs :
        /\ pc[p] = "idle" /\ ret[p].op = "Move"
        /\ ret[p].inner \notin {Nil, "notrun"}
        /\ ret[p].unlock = "unlock"
        /\ ret[p].err = ret[p].inner
        /\ ret[p].logged = "unlock"

\* ------------------------------------------------ the lock of a finding
\* Process p is executing moveInputFile.
InsideMove(p) ==
    pc[p] \in {"mv_scan", "mv_copy", "mv_seed", "mv_remove", "mv_rewrite"}

\* C11: at every moment at most one process is executing moveInputFile for
\* a finding directory, and that process holds the directory's lock;
\* processes inside moveInputFile at the same time work on different
\* findings.
C11_OneInside ==
    \A p \in Procs : InsideMove(p) =>
        /\ LockPath(f[p].Name) \in locked
        /\ \A q \in Procs \ {p} :
               (InsideMove(q) \/ pc[q] = "mv_unlock") => f[q].Name # f[p].Name

\* Two processes are inside moveInputFile at the same time, for different
\* findings, each past the scan of its directory.
C11_Witness ==
    \E p \in Procs, q \in Procs :
        /\ p # q
        /\ f[p].Name # f[q].Name
        /\ pc[p] = "mv_seed"
        /\ pc[q] = "mv_copy"
        /\ {LockPath(f[p].Name), LockPath(f[q].Name)} \subseteq locked

\* The slots of finding n that exist in the file map fs.
SlotsOf(fs, n) == {k \in SlotRange : SlotAbs(n, k) \in DOMAIN fs}

\* The slot and corpus paths of all findings.
StorePaths ==
    {SlotAbs(n, k) : n \in FindingNames, k \in SlotRange}
        \cup {SeedAbs(n, k) : n \in FindingNames, k \in SlotRange}

\* Every call made so far has returned, and every MoveInputFile returned nil.
AllReturnedOk ==
    \A p \in Procs : pc[p] = "idle" /\ (ret[p].op = "Move" => ret[p].err = Nil)

\* C12: while processes call MoveInputFile at the same time, no step writes
\* to a slot path or a corpus path that already exists or removes one, so no
\* two calls write the same path and no stored input is overwritten or
\* dropped; and once all calls have returned nil, a finding's directory holds
\* one slot for each of the different inputs stored for it, and no other slot.
C12_NoRace ==
    [][/\ \A path \in StorePaths :
              path \in DOMAIN files =>
                  path \in DOMAIN files' /\ files'[path] = files[path]
       /\ AllReturnedOk' =>
              \A n \in FindingNames :
                  LET stored == {m[2] : m \in {x \in moved' : x[1] = n}} IN
                  /\ Cardinality(SlotsOf(files', n)) = Cardinality(stored)
                  /\ \A b \in stored :
                         \E k \in SlotRange : Holds(files', SlotAbs(n, k), b)
      ]_vars

\* Two processes stored different bytes for one finding in calls that
\* overlapped: the call that began last, before the first slot was written,
\* got the second slot.
C12_Witness ==
    \E p \in Procs, q \in Procs :
        /\ p # q
        /\ f[p].Name = f[q].Name
        /\ inb[p] # inb[q]
        /\ AllReturnedOk
        /\ ret[p].op = "Move" /\ ret[q].op = "Move"
        /\ pre.p = q
        /\ SlotAbs(f[q].Name, 1) \notin DOMAIN pre.files
        /\ Holds(files, SlotAbs(f[p].Name, 1), inb[p])
        /\ Holds(files, SlotAbs(f[q].Name, 2), inb[q])
        /\ Holds(files, SeedAbs(f[p].Name, 1), inb[p])
        /\ Holds(files, SeedAbs(f[q].Name, 2), inb[q])

\* ------------------------------------------------------ Save in parallel
\* Process p's latest call was a Save that returned nil.
SaveOk(p) == pc[p] = "idle" /\ ret[p].op = "Save" /\ ret[p].err = Nil

\* C13 as claimed: of the Save calls that processes make at the same time
\* for one name exactly one returns nil, and the record it wrote is the one
\* on disk: no other call has overwritten it.
C13_Original ==
    \A p \in Procs : SaveOk(p) =>
        /\ \A q \in Procs \ {p} : f[q].Name = f[p].Name => ~SaveOk(q)
        /\ JsonPath(f[p].Name) \in DOMAIN json
        /\ json[JsonPath(f[p].Name)] = MarshalIndent(f[p])

\* ------------------------------------------------------- slot indices
\* The indices MoveInputFile calls gave to inputs of finding n before the
\* latest call began: every call that stores slot i also writes the corpus
\* file <name>-i, which stays when the slot file is removed.
ChosenBefore(n) ==
    {k \in SlotRange : SlotAbs(n, k) \in DOMAIN pre.files
                          \/ SeedAbs(n, k) \in DOMAIN pre.files}

\* C14 as claimed: the index of the slot a MoveInputFile call stores is
\* greater than every index an earlier call chose for that finding (1 when
\* there was none), also when a slot file was removed between the calls.
C14_Original ==
    \A p \in Procs : StoreCase(p) =>
        \A k \in SlotRange :
            (/\ SlotAbs(pre.f.Name, k) \notin DOMAIN pre.files
             /\ Holds(files, SlotAbs(pre.f.Name, k), inb[p]))
            => /\ \A j \in ChosenBefore(pre.f.Name) : j < k
               /\ ChosenBefore(pre.f.Name) = {} => k = 1

\* ------------------------------------------------- failures of a store
\* Some slot of finding n holds the bytes b, and the corpus file of that
\* slot's number too.
StoredBoth(n, b) ==
    \E k \in SlotRange : Holds(files, SlotAbs(n, k), b) /\ Holds(files, SeedAbs(n, k), b)

\* C15: in every state of MoveInputFile calls in which system calls fail,
\* the bytes of each process's input are in its source file or in a slot of
\* its finding; the source file is gone only when a slot and the corpus
\* file of its number hold the bytes; a call returns nil only if it found
\* the bytes stored or stored them, copied them to the corpus and removed
\* the source; and no step removes or changes a slot or corpus file that
\* exists.
C15_EvidenceKept ==
    /\ [](\A p \in Procs : inb[p] # NoBytes =>
            /\ \/ Holds(files, InputPath(p), inb[p])
               \/ \E k \in SlotRange : Holds(files, SlotAbs(f[p].Name, k), inb[p])
            /\ InputPath(p) \notin DOMAIN files => StoredBoth(f[p].Name, inb[p])
            /\ (Returned(p, "Move") /\ ret[p].err = Nil) =>
                   \/ HadSlot(p)
                   \/ /\ StoredBoth(f[p].Name, inb[p])
                      /\ InputPath(p) \notin DOMAIN files
                      /\ Resolve(pre.f.InputFile) \notin DOMAIN files)
    /\ [][\A path \in StorePaths :
              path \in DOMAIN files =>
                  path \in DOMAIN files' /\ files'[path] = files[path]]_vars

\* The corpus copy of a call failed after the slot copy: the call returned
\* that error, the source file and the slot hold the bytes, the corpus file
\* does not.
C15_Witness ==
    \E p \in Procs :
        /\ Returned(p, "Move")
        /\ ret[p].err = "copy_seed"
        /\ Holds(files, InputPath(p), inb[p])
        /\ Holds(files, SlotAbs(f[p].Name, 1), inb[p])
        /\ ~Holds(files, SeedAbs(f[p].Name, 1), inb[p])

\* ------------------------------------------------------------ liveness
\* C16: the lock of a finding is held only while a process is between
\* mutex.Lock and mutex.Unlock for it, whether moveInputFile stored the
\* input, found it stored or failed; and under fair scheduling every
\* process that waits for the lock gets it and its call returns.
C16_LockReleased ==
    /\ [](\A n \in FindingNames :
            Locked(LockPath(n)) =>
                \E p \in Procs :
                    f[p].Name = n /\ (InsideMove(p) \/ pc[p] = "mv_unlock"))
    /\ \A p \in Procs : (pc[p] = "mv_lock") ~> (pc[p] \in {"mv_scan"})
    /\ \A p \in Procs : (pc[p] = "mv_lock") ~> (pc[p] = "idle")

\* A process waits for the lock of its finding while the process that
\* holds it is about to leave moveInputFile with an error.
C16_Witness ==
    \E p \in Procs, q \in Procs :
        /\ p # q
        /\ f[p].Name = f[q].Name
        /\ pc[p] = "mv_lock"
        /\ pc[q] = "mv_unlock"
        /\ err[q] # Nil
        /\ Locked(LockPath(f[q].Name))

\* ------------------------------------------------- the duplicate's frame
\* C17: a MoveInputFile call that finds a slot with the bytes of its input
\* returns nil and leaves every file of the finding directory and of the
\* corpus directory, the directories themselves, and the Finding's Logs,
\* InputFile and seedPath as they were before the call.
C17_DupFrame ==
    \A p \in Procs : DedupCase(p) =>
        /\ \A path \in DOMAIN files \cup DOMAIN pre.files :
               (InDir(path, FindingDir(pre.f.Name)) \/ InDir(path, seedCorpusDir)) =>
                   /\ path \in DOMAIN files
                   /\ path \in DOMAIN pre.files
                   /\ files[path] = pre.files[path]
        /\ json = pre.json
        /\ f[p].Logs = pre.f.Logs
        /\ f[p].InputFile = pre.f.InputFile
        /\ f[p].seedPath = pre.f.seedPath

\* The scan passed a slot with other bytes and found the input's bytes in
\* the second slot; the source path is still in the logs.
C17_Witness ==
    \E p \in Procs :
        /\ DedupCase(p)
        /\ ~Holds(pre.files, SlotAbs(pre.f.Name, 1), inb[p])
        /\ Holds(pre.files, SlotAbs(pre.f.Name, 2), inb[p])
        /\ i[p] = 2
        /\ Contains(f[p].Logs[2], f[p].InputFile)

\* ------------------------------------------------ slots with equal bytes
\* C18 as claimed: no two slot files of a finding hold identical bytes.
C18_Original ==
    \A n \in FindingNames : \A k1 \in SlotsOf(files, n), k2 \in SlotsOf(files, n) :
        k1 # k2 => files[SlotAbs(n, k1)] # files[SlotAbs(n, k2)]

\* C18, amended: no two slot files of a finding hold the same complete
\* input; only slot files that failed copies left behind may hold identical
\* bytes.
C18_Amended ==
    \A n \in FindingNames : \A b \in Bytes :
        Cardinality({k \in SlotRange : Holds(files, SlotAbs(n, k), b)}) <= 1

\* All calls have returned; the slot copy of one failed and left a file
\* without the input's bytes, and a call that came later passed it and
\* stored the input in the next slot, where a third call would find it.
C18_Witness ==
    \E p \in Procs, q \in Procs :
        /\ \A r \in Procs : pc[r] = "idle" /\ ret[r].op = "Move"
        /\ f[p].Name = f[q].Name
        /\ inb[p] = inb[q]
        /\ ret[p].err = "copy_slot"
        /\ ret[q].err = Nil
        /\ Holds(files, SlotAbs(f[p].Name, 1), "")
        /\ Holds(files, SlotAbs(f[q].Name, 2), inb[q])

\* ------------------------------------------ listing after Save and Move
\* The names of the findings in a list.
NamesIn(res) == {res[k].Name : k \in 1..Len(res)}

\* C19 as claimed: after any sequence of Save and MoveInputFile calls,
\* ListFindings succeeds and returns exactly the findings whose Save
\* succeeded, also when MoveInputFile made a finding's directory before any
\* Save of that name.
C19_Original ==
    AllIdle =>
        /\ ListFindings.err = Nil
        /\ NamesIn(ListFindings.res) = savedOk
        /\ Len(ListFindings.res) = Cardinality(savedOk)

\* C19, amended: ListFindings succeeds exactly when every finding directory
\* holds a finding.json, and then returns exactly the findings whose Save
\* succeeded (none when the findings root does not exist); while a finding
\* directory exists without one, as after a MoveInputFile before any Save of
\* that name, it fails with the NotExist error of LoadFinding and returns
\* no finding.
C19_Amended ==
    LET r == ListFindings
        bare == {n \in FindingNames :
                    <<"/", "proj", "/", ".cifuzz-findings", "/">> \o n \in dirs
                        /\ n \notin savedOk}
    IN  /\ r.err = Nil <=> bare = {}
        /\ r.err = Nil =>
               NamesIn(r.res) = savedOk /\ Len(r.res) = Cardinality(savedOk)
        /\ r.err # Nil => r.err = "NotExist" /\ r.res = <<>>
        /\ <<"/", "proj", "/", ".cifuzz-findings">> \notin dirs => r.res = <<>> /\ r.err = Nil

\* MoveInputFile stored an input for a finding that was never saved, after
\* another finding was saved: ListFindings fails.
C19_Witness ==
    \E n \in FindingNames, m \in FindingNames, p \in Procs :
        /\ AllIdle
        /\ MoveOk(p) /\ pre.f.Name = n
        /\ n \notin savedOk
        /\ m \in savedOk
        /\ FileExists(SlotAbs(n, 1))
        /\ ListFindings.err = "NotExist"

\* --------------------------------------------- the retry after a failure
\* C20 as claimed: once a MoveInputFile call for finding n and bytes b has
\* returned nil, a slot crashing-input-i of n holds b and the corpus file
\* <name>-i holds b too, also when the call was a retry after a call that
\* failed between the slot copy and the corpus copy.
C20_Original ==
    \A m \in moved : m[2] # NoBytes => StoredBoth(m[1], m[2])

\* ------------------------------------------------------- the seed path
\* C21 as claimed: whenever GetSeedPath of a process's Finding is not
\* empty, a corpus file exists at that path and holds the bytes of the
\* input; and a MoveInputFile call in which moveInputFile failed at or
\* before the corpus copy leaves the seed path as it was, unset if it was
\* unset.
C21_Original ==
    \A p \in Procs :
        /\ GetSeedPath(f[p]) # Empty =>
               /\ \E k \in SlotRange : GetSeedPath(f[p]) = SeedAbs(f[p].Name, k)
               /\ (pc[p] \in {"idle", "mv_unlock"} /\ inb[p] # NoBytes) =>
                      Holds(files, GetSeedPath(f[p]), inb[p])
        /\ (Returned(p, "Move")
               /\ ret[p].inner \in {"scan", "read_existing", "read_new", "copy_slot",
                                     "mkdir_seed", "copy_seed"}) =>
               GetSeedPath(f[p]) = GetSeedPath(pre.f)

====
